---- MODULE Spec2Model ----
(***************************************************************************)
(* A model of the benchmark adapter (class Benchmark, main.ts, held in     *)
(* src/src/lib/activeTests/objectsCreation.ts lines 34-520) together with  *)
(* the workload registry (src/src/lib/allTests.ts) and the workload        *)
(* lifecycle (prepare / execute / cleanUp).                                 *)
(*                                                                         *)
(* Node.js runs one callback at a time: every action below is the code     *)
(* that runs between two suspension points (an await, a timer) of one      *)
(* activation of runTests, onMessage, monitorStats or the lag timer.       *)
(*                                                                         *)
(* Numbers are JavaScript doubles in the code.  The model computes with    *)
(* exact rationals, NaN and +Infinity (record "Num" below); floating point *)
(* representation error is not modelled.                                   *)
(***************************************************************************)
EXTENDS Integers, Sequences, FiniteSets, TLC

(***************************************************************************)
(* Bounds of the model.                                                    *)
(***************************************************************************)
\* activations of runTests over the life of the process
MaxRuns == 2
\* workloads of the registry that the model registers (registry order)
MaxTests == 2
\* largest configured number of epochs
MaxEpochs == 2
\* longest sample series a sampler or a report builds
MaxSamples == 1
\* longest series the primary accumulates from the reports of one sender
MaxReported == 2
\* messages a secondary handles over the life of the process
MaxHandlers == 3
\* largest n of an 'objects' or 'states' message
MaxObjects == 2

(***************************************************************************)
(* Numbers.                                                                *)
(***************************************************************************)
NaN == [k |-> "nan"]
Infinity == [k |-> "inf"]
Rat(n, d) == [k |-> "rat", n |-> n, d |-> d]
\* the square root of the non-negative rational n/d
Root(n, d) == [k |-> "sqrt", n |-> n, d |-> d]
Zero == Rat(0, 1)

Abs(i) == IF i < 0 THEN -i ELSE i

RECURSIVE Gcd(_, _)
Gcd(a, b) == IF b = 0 THEN a ELSE Gcd(b, a % b)

\* n/d in lowest terms, d > 0
Norm(n, d) ==
  LET g == Gcd(Abs(n), d)
  IN Rat(n \div g, d \div g)

IsRat(x) == x.k = "rat"

\* a + b
Plus(a, b) ==
  IF a.k = "nan" \/ b.k = "nan" THEN NaN
  ELSE IF a.k = "inf" \/ b.k = "inf" THEN Infinity
  ELSE Norm(a.n * b.d + b.n * a.d, a.d * b.d)

\* a - b, on finite numbers
Minus(a, b) ==
  IF a.k = "nan" \/ b.k = "nan" THEN NaN
  ELSE Norm(a.n * b.d - b.n * a.d, a.d * b.d)

\* a * b, on finite numbers
Times(a, b) ==
  IF a.k = "nan" \/ b.k = "nan" THEN NaN
  ELSE Norm(a.n * b.n, a.d * b.d)

\* a / b for a >= 0, b >= 0, as JavaScript divides: x/0 is Infinity, 0/0 and
\* anything with NaN is NaN, Infinity/x is Infinity
Div(a, b) ==
  IF a.k = "nan" \/ b.k = "nan" THEN NaN
  ELSE IF a.k = "inf" THEN (IF b.k = "inf" THEN NaN ELSE Infinity)
  ELSE IF b.k = "inf" THEN Zero
  ELSE IF b.n = 0 THEN (IF a.n = 0 THEN NaN ELSE Infinity)
  ELSE Norm(a.n * b.d, a.d * b.n)

\* Math.sqrt
Sqrt(a) ==
  IF a.k = "rat" THEN Root(a.n, a.d) ELSE a

\* a === b on numbers (NaN equals nothing)
NumEq(a, b) ==
  /\ a.k = b.k
  /\ a.k # "nan"
  /\ a.k = "rat" => a.n * b.d = b.n * a.d

\* a !== 0
NotZero(a) == ~(a.k = "rat" /\ a.n = 0)

IsNaN(a) == a.k = "nan"
IsInfinity(a) == a.k = "inf"

\* Math.round(100 * sqrt(n/d)): the largest k with k - 1/2 <= 100 * sqrt(n/d)
RoundRoot(n, d) ==
  LET ok(k) == k = 0 \/ (2 * k - 1) * (2 * k - 1) * d <= 40000 * n
      top == 100 * ((n \div d) + 1)
  IN CHOOSE k \in 0..top : ok(k) /\ ~ok(k + 1)

\* round (line 509-511): Math.round(number * 100) / 100; Math.round rounds a
\* half up.  The result is kept in hundredths.
round(number) ==
  CASE number.k = "rat" -> Rat((200 * number.n + number.d) \div (2 * number.d), 100)
    [] number.k = "sqrt" -> Rat(RoundRoot(number.n, number.d), 100)
    [] OTHER -> number

RECURSIVE SumSeq(_)
\* arr.reduce((partialSum, x) => partialSum + x, 0)
SumSeq(arr) ==
  IF arr = <<>> THEN Zero ELSE Plus(Head(arr), SumSeq(Tail(arr)))

\* calcMean (line 417-420)
calcMean(arr) == Div(SumSeq(arr), Rat(Len(arr), 1))

\* calcStd (line 425-437)
calcStd(arr) ==
  LET mean == calcMean(arr)
      sqDiffs == [i \in 1..Len(arr) |->
                    LET diff == Minus(arr[i], mean) IN Times(diff, diff)]
      avgSqDiff == calcMean(sqDiffs)
  IN Sqrt(avgSqDiff)

(***************************************************************************)
(* JavaScript objects used as maps: a function whose domain is the set of  *)
(* keys present; m[k] of an absent key is undefined.                       *)
(***************************************************************************)
EmptyMap == [u \in {} |-> <<>>]
Has(m, key) == key \in DOMAIN m
Put(m, key, v) == [u \in DOMAIN m \cup {key} |-> IF u = key THEN v ELSE m[u]]
Delete(m, key) == [u \in DOMAIN m \ {key} |-> m[u]]

(***************************************************************************)
(* The registry of workloads (allTests.ts): the first MaxTests entries, in *)
(* registry order.                                                         *)
(***************************************************************************)
TestRegistry ==
  <<"setStates", "statesSubscription", "statesDeletion", "idle",
    "objectsCreation", "setStatesNonStrict">>
allTests == SubSeq(TestRegistry, 1, MaxTests)
TestNames == {allTests[i] : i \in 1..Len(allTests)}

\* allTests is an object literal: next to its own keys, the ids of the
\* workloads, it answers for the keys it inherits from Object.prototype, of
\* which these are two
ObjectPrototypeKeys == {"constructor", "toString"}

\* line 292: allTests[obj.command] is truthy
allTestsHas(command) == command \in TestNames \cup ObjectPrototypeKeys

\* the instance objects of the host ('system', 'instance' view), in id order;
\* the second one is the benchmark's own
InstanceIds ==
  <<"system.adapter.admin.0", "system.adapter.benchmark.0", "system.adapter.web.0">>
namespace == "benchmark.0"
OwnId == "system.adapter.benchmark.0"
InstanceSet == {InstanceIds[i] : i \in 1..Len(InstanceIds)}

\* senders of 'requestedMonitoring' reports
Senders == {"system.adapter.benchmark.1", "system.adapter.benchmark.2"}

\* the states runTests persists for a workload, in the order it writes them
\* (lines 194, 195, 201, 202, 208, 209, 215, 216, 221, 222, 257)
StatFields ==
  <<"timeMean", "timeStd", "cpuMean", "cpuStd", "memMean", "memStd",
    "eventLoopLagMean", "eventLoopLagStd", "actionsPerSecondMean",
    "actionsPerSecondStd", "summary">>

VARIABLES
  config,                 \* this.config: secondaryMode, isolatedRun, iterations, epochs
  activeTest,             \* this.activeTest, the marker
  monitoringActive,       \* this.monitoringActive
  cpuStats,               \* this.cpuStats: key -> samples
  memStats,               \* this.memStats: key -> samples
  internalEventLoopLags,  \* this.internalEventLoopLags: key -> samples
  requestedMonitoring,    \* this.requestedMonitoring: sender -> entry
  restartInstances,       \* this.restartInstances: a reference into arrays, 0 when undefined
  arrays,                 \* the arrays created by "this.restartInstances = []", by reference
  runs,                   \* the activations of runTests
  monitors,               \* the live monitorStats loops, by where they are suspended
  lagTimers,              \* the pending timers of measureEventLoopLag chains, by kind
  objects,                \* the host's instance objects: id -> common.enabled
  states,                 \* the states persisted with setStateAsync: id -> value
  ownWrites,              \* how often the benchmark's own instance object was written
  lastMessage,            \* the onMessage activation that ended last (primary)
  handlers,               \* the activations of onMessage on a secondary
  ownObjects,             \* the i for which the object test.i exists in the own namespace
  ownStates,              \* the i for which the state test.i exists in the own namespace
  requestedMonitoringStartTime,  \* this.requestedMonitoringStartTime, 0 when undefined
  outbox                  \* the messages sent with sendToAsync, in the order sent

vars ==
  <<config, activeTest, monitoringActive, cpuStats, memStats, internalEventLoopLags,
    requestedMonitoring, restartInstances, arrays, runs, monitors, lagTimers,
    objects, states, ownWrites, lastMessage, handlers, ownObjects, ownStates,
    requestedMonitoringStartTime, outbox>>

RunIds == 1..MaxRuns

\* an activation record of runTests that has not been started
NoRun ==
  [pc |-> "none", sel |-> <<>>, wi |-> 0, j |-> 0, si |-> 0, times |-> EmptyMap,
   rows |-> <<>>, k |-> 0, arr |-> 0, loc |-> EmptyMap, err |-> "", at |-> "",
   acks |-> 0, before |-> {}, stopped |-> {}, restarted |-> {}, wrote |-> {},
   phases |-> <<>>, inst |-> 0, summaries |-> <<>>]

\* Of an activation record, these fields are the code's: sel (selectedTests),
\* wi (the position of the loop of line 137), j, times, rows and k (the loop of
\* line 106), arr and k (the loop of line 271), loc (the constants of lines
\* 191-235).  The others record what the activation did: acks (replies sent for
\* the message that started it), before (the other instances enabled in the
\* view it read), stopped and restarted (the instances it disabled and
\* enabled), wrote (the workloads it persisted a state of), phases (the phases
\* called on the workload instance of the epoch), inst (the workload instances
\* it created), summaries (the workloads whose summary it wrote, in the order
\* of the writes), err and at (why and where it ended).

\* the workload an activation is processing
activeTestName(run) == run.sel[run.wi]

\* an activation that has ended (how: "done" or "failed"): its locals are gone;
\* where it ended (at), on which workload (sel, wi) and why (err) is kept
Ended(run, how, why) ==
  [NoRun EXCEPT !.pc = how, !.err = why, !.at = run.pc, !.sel = run.sel,
                !.wi = run.wi, !.acks = run.acks, !.before = run.before,
                !.stopped = run.stopped,
                !.restarted = run.restarted, !.wrote = run.wrote,
                !.summaries = run.summaries]

(***************************************************************************)
(* Elapsed time (lines 173-177): process.hrtime(timeStart) is a pair       *)
(* [seconds, nanoseconds]; join('.') writes "seconds.nanoseconds" and      *)
(* parseFloat reads it back as a decimal number.                           *)
(***************************************************************************)
RECURSIVE Pow10Digits(_)
\* 10 to the number of decimal digits of n
Pow10Digits(n) == IF n < 10 THEN 10 ELSE 10 * Pow10Digits(n \div 10)

parseFloatJoin(hr) == Plus(Rat(hr[1], 1), Norm(hr[2], Pow10Digits(hr[2])))

(***************************************************************************)
(* The reduction of a workload's series (lines 191-255).                   *)
(***************************************************************************)
\* lines 218-219 without the test of timeStd: what the reduction would yield if
\* it divided by a zero deviation
actionsPerSecondStdUnguarded(iterations, timeStd) ==
  round(Div(Rat(iterations, 1), timeStd))

\* lines 218-219: the primary's own actions per second
actionsPerSecondMean(iterations, timeMean) ==
  round(Div(Rat(iterations, 1), timeMean))

actionsPerSecondStd(iterations, timeStd) ==
  IF NotZero(timeStd) THEN round(Div(Rat(iterations, 1), timeStd)) ELSE Zero

\* line 252 without the split on the reporting instances
secondaryActionsPerSecondMeanUnsplit(iterations, timeMean, count) ==
  round(Div(Rat(iterations, 1), timeMean))

\* lines 252-253: a secondary's actions per second; the actions are split on
\* count = Object.keys(this.requestedMonitoring).length instances
secondaryActionsPerSecondMean(iterations, timeMean, count) ==
  round(Div(Div(Rat(iterations, 1), timeMean), Rat(count, 1)))

secondaryActionsPerSecondStd(iterations, timeStd, count) ==
  IF NotZero(timeStd)
  THEN round(Div(Div(Rat(iterations, 1), timeStd), Rat(count, 1)))
  ELSE Zero

\* lines 240-254: the summary of one reporting instance
SecondarySummary(entry, iterations, count) ==
  LET timeMean == round(calcMean(entry.time))
      timeStd == round(calcStd(entry.time))
  IN [cpuMean |-> round(calcMean(entry.cpuStats)),
      cpuStd |-> round(calcStd(entry.cpuStats)),
      memMean |-> round(calcMean(entry.memStats)),
      memStd |-> round(calcStd(entry.memStats)),
      eventLoopLagMean |-> round(calcMean(entry.eventLoopLags)),
      eventLoopLagStd |-> round(calcStd(entry.eventLoopLags)),
      timeMean |-> timeMean,
      timeStd |-> timeStd,
      actionsPerSecondMean |-> secondaryActionsPerSecondMean(iterations, timeMean, count),
      actionsPerSecondStd |-> secondaryActionsPerSecondStd(iterations, timeStd, count)]

\* lines 238-255: one entry per key of this.requestedMonitoring
Secondaries(reqMon, iterations) ==
  [instance \in DOMAIN reqMon |->
     SecondarySummary(reqMon[instance], iterations, Cardinality(DOMAIN reqMon))]

\* lines 224-255: the ten statistics, and "secondaries" when a report is held
SummaryState(loc, reqMon, iterations) ==
  LET own == [f \in {StatFields[i] : i \in 1..10} |-> loc[f]]
  IN IF DOMAIN reqMon = {}
     THEN own
     ELSE Put(own, "secondaries", Secondaries(reqMon, iterations))

\* JSON.stringify (line 257) writes NaN and Infinity as null
Null == [k |-> "null"]
JSONnumber(v) == IF IsNaN(v) \/ IsInfinity(v) THEN Null ELSE v
JSONstringify(summaryState) ==
  [f \in DOMAIN summaryState |->
     IF f = "secondaries"
     THEN [instance \in DOMAIN summaryState[f] |->
             [g \in DOMAIN summaryState[f][instance] |->
                JSONnumber(summaryState[f][instance][g])]]
     ELSE JSONnumber(summaryState[f])]

(***************************************************************************)
(* runTests (lines 100-281).  pc names the await an activation is          *)
(* suspended at:                                                           *)
(*   view (105), stop (110), chan (143), objs (155), prepare (168),        *)
(*   execute (175), cleanUp (183), cooldown (187), set (the setStateAsync  *)
(*   of StatFields[si]: 194 ... 257), rget (272), rset (275).              *)
(* The awaits of the loop over testObjects (152-158) are one suspension.   *)
(***************************************************************************)
seriesVars == <<cpuStats, memStats, internalEventLoopLags>>
samplerVars == <<monitors, lagTimers>>
hostVars == <<objects, ownWrites>>
restartVars == <<restartInstances, arrays>>
\* what only a secondary's onMessage reads and writes
secondaryVars ==
  <<handlers, ownObjects, ownStates, requestedMonitoringStartTime, outbox>>

\* The chains of measureEventLoopLag are counted by what their pending timer
\* has been through: "pending" (scheduled, the flag not cleared since),
\* "terminal" (the flag was cleared while the timer was pending) and "revived"
\* (rescheduled by a fire that came after the flag had been cleared).
NoTimers == [pending |-> 0, terminal |-> 0, revived |-> 0]
TimerKinds == {"pending", "terminal", "revived"}

\* lines 496-497: measureEventLoopLag schedules the first fire of a chain
StartChain(timers) == [timers EXCEPT !.pending = @ + 1]

\* this.monitoringActive = false (lines 267, 377) with these timers pending
Deactivated(timers) ==
  [pending |-> 0, terminal |-> timers.terminal + timers.pending + timers.revived,
   revived |-> 0]

\* lines 490-493 without the test of the flag: every fire reschedules
AfterFireRescheduled(timers, kind, active) == timers

\* lines 490-493 after a fire of a timer of some kind: rescheduled while the
\* flag is set, else the chain is over
AfterFire(timers, kind, active) ==
  IF ~active THEN [timers EXCEPT ![kind] = @ - 1]
  ELSE IF kind = "terminal"
  THEN [timers EXCEPT !.terminal = @ - 1, !.revived = @ + 1]
  ELSE timers

InitSeries(m, name) == Put(m, name, <<>>)

\* lines 116-143 with the first workload: reset the maps, start both samplers,
\* create the series of the first workload, call setObjectNotExistsAsync
StartBenchmark(r, run) ==
  LET name == run.sel[1]
  IN /\ memStats' = InitSeries(EmptyMap, name)
     /\ cpuStats' = InitSeries(EmptyMap, name)
     /\ internalEventLoopLags' = InitSeries(EmptyMap, name)
     /\ requestedMonitoring' = EmptyMap
     /\ monitoringActive' = TRUE
     /\ monitors' = [monitors EXCEPT !.probe = @ + 1]
     /\ lagTimers' = StartChain(lagTimers)
     /\ runs' = [runs EXCEPT ![r] =
                   [run EXCEPT !.pc = "chan", !.wi = 1,
                               !.times = InitSeries(EmptyMap, name)]]

\* the call runTests(selectedTests) up to its first await; acks counts the
\* replies sent for the message that made the call
RunTestsCall(r, selectedTests, acks) ==
  LET run == [NoRun EXCEPT !.sel = selectedTests, !.acks = acks]
  IN IF config.isolatedRun
     THEN /\ restartInstances' = r
          /\ arrays' = [arrays EXCEPT ![r] = <<>>]
          /\ runs' = [runs EXCEPT ![r] = [run EXCEPT !.pc = "view"]]
          /\ UNCHANGED <<seriesVars, samplerVars, requestedMonitoring, monitoringActive>>
     ELSE /\ StartBenchmark(r, run)
          /\ UNCHANGED restartVars

\* line 107: the rows of the view that are stopped
ToStop(id, enabled) == id # OwnId /\ enabled

\* line 105 returns: the rows are read; the loop calls setForeignObjectAsync
\* for the first row to stop, or is over
ViewReturns(r) ==
  LET run == runs[r]
      rows == SelectSeq(InstanceIds, LAMBDA id : ToStop(id, objects[id]))
      run2 == [run EXCEPT !.rows = rows, !.k = 1,
                          !.before = {id \in InstanceSet \ {OwnId} : objects[id]}]
  IN /\ run.pc = "view"
     /\ IF rows = <<>>
        THEN StartBenchmark(r, run2)
        ELSE /\ runs' = [runs EXCEPT ![r] = [run2 EXCEPT !.pc = "stop"]]
             /\ UNCHANGED <<seriesVars, samplerVars, requestedMonitoring, monitoringActive>>
     /\ UNCHANGED <<config, secondaryVars, activeTest, restartVars, hostVars, states, lastMessage>>

\* line 110 returns: the instance is disabled; line 111 pushes its id
StopReturns(r) ==
  LET run == runs[r]
      id == run.rows[run.k]
      run2 == [run EXCEPT !.stopped = @ \cup {id}, !.k = @ + 1]
  IN /\ run.pc = "stop"
     /\ objects' = [objects EXCEPT ![id] = FALSE]
     /\ ownWrites' = ownWrites + (IF id = OwnId THEN 1 ELSE 0)
     /\ arrays' = [arrays EXCEPT ![restartInstances] = Append(@, id)]
     /\ IF run.k < Len(run.rows)
        THEN /\ runs' = [runs EXCEPT ![r] = run2]
             /\ UNCHANGED <<seriesVars, samplerVars, requestedMonitoring, monitoringActive>>
        ELSE StartBenchmark(r, run2)
     /\ UNCHANGED <<config, secondaryVars, activeTest, restartInstances, states, lastMessage>>

\* line 143 returns
ChannelReturns(r) ==
  /\ runs[r].pc = "chan"
  /\ runs' = [runs EXCEPT ![r].pc = "objs"]
  /\ UNCHANGED <<config, secondaryVars, activeTest, monitoringActive, seriesVars, requestedMonitoring,
                 restartVars, samplerVars, hostVars, states, lastMessage>>

\* lines 164-168 with the instance of the previous epoch used again
NewEpochSameInstance(run, j) ==
  [run EXCEPT !.j = j, !.phases = <<"prepare">>, !.pc = "prepare"]

\* lines 164-168: a new workload instance, and the call of its prepare()
NewEpoch(run, j) ==
  [run EXCEPT !.j = j, !.inst = @ + 1, !.phases = <<"prepare">>, !.pc = "prepare"]

\* line 155 returns for the last test object: the first epoch begins.  With
\* an inherited key, allTests[activeTestName] is no workload class: line 165
\* or line 168 throws a TypeError, which ends the activation
TestObjectsReturn(r) ==
  /\ runs[r].pc = "objs"
  /\ runs' = [runs EXCEPT ![r] =
                IF activeTestName(runs[r]) \in TestNames
                THEN NewEpoch(runs[r], 1)
                ELSE Ended(runs[r], "failed", "TypeError")]
  /\ UNCHANGED <<config, secondaryVars, activeTest, monitoringActive, seriesVars, requestedMonitoring,
                 restartVars, samplerVars, hostVars, states, lastMessage>>

\* line 168 returns: lines 171-175 set the marker and call execute()
PrepareReturns(r) ==
  /\ runs[r].pc = "prepare"
  /\ activeTest' = activeTestName(runs[r])
  /\ runs' = [runs EXCEPT ![r].pc = "execute", ![r].phases = Append(@, "execute")]
  /\ UNCHANGED <<config, secondaryVars, monitoringActive, seriesVars, requestedMonitoring,
                 restartVars, samplerVars, hostVars, states, lastMessage>>

\* line 181 with an assignment in place of the push
PushTimeReplace(times, name, timeEnd) == [times EXCEPT ![name] = <<timeEnd>>]

\* line 181
PushTime(times, name, timeEnd) == [times EXCEPT ![name] = Append(@, timeEnd)]

\* line 175 returns after hr = process.hrtime(timeStart): lines 177-183 clear
\* the marker, record the time and call cleanUp()
ExecuteReturns(r, hr) ==
  LET run == runs[r]
      timeEnd == parseFloatJoin(hr)
  IN /\ run.pc = "execute"
     /\ activeTest' = "none"
     /\ runs' = [runs EXCEPT ![r] =
                   [run EXCEPT !.times = PushTime(@, activeTestName(run), timeEnd),
                               !.pc = "cleanUp", !.phases = Append(@, "cleanUp")]]
     /\ UNCHANGED <<config, secondaryVars, monitoringActive, seriesVars, requestedMonitoring,
                    restartVars, samplerVars, hostVars, states, lastMessage>>

\* line 183 returns: line 187 starts the cooldown
CleanUpReturns(r) ==
  /\ runs[r].pc = "cleanUp"
  /\ runs' = [runs EXCEPT ![r].pc = "cooldown"]
  /\ UNCHANGED <<config, secondaryVars, activeTest, monitoringActive, seriesVars, requestedMonitoring,
                 restartVars, samplerVars, hostVars, states, lastMessage>>

\* lines 191-194: the time statistics, and the first setStateAsync
ReduceTimes(run) ==
  LET times == run.times[activeTestName(run)]
  IN [run EXCEPT !.pc = "set", !.si = 1,
                 !.loc = Put(Put(EmptyMap, "timeMean", round(calcMean(times))),
                             "timeStd", round(calcStd(times)))]

\* line 187 returns, without the loop of line 162: the reduction follows the
\* first epoch
CooldownEndsOnce(r) ==
  /\ runs[r].pc = "cooldown"
  /\ runs' = [runs EXCEPT ![r] = ReduceTimes(runs[r])]
  /\ UNCHANGED <<config, secondaryVars, activeTest, monitoringActive, seriesVars, requestedMonitoring,
                 restartVars, samplerVars, hostVars, states, lastMessage>>

\* line 187 returns: the next epoch (line 162), or the reduction
CooldownEnds(r) ==
  LET run == runs[r]
  IN /\ run.pc = "cooldown"
     /\ runs' = [runs EXCEPT ![r] =
                   IF run.j + 1 <= config.epochs
                   THEN NewEpoch(run, run.j + 1)
                   ELSE ReduceTimes(run)]
     /\ UNCHANGED <<config, secondaryVars, activeTest, monitoringActive, seriesVars, requestedMonitoring,
                    restartVars, samplerVars, hostVars, states, lastMessage>>

\* the statistics of one sampled series (lines 198-199, 205-206, 212-213);
\* calcMean(undefined) throws a TypeError
WithStats(run, series, name, meanField, stdField) ==
  IF Has(series, name)
  THEN [run EXCEPT !.si = @ + 1,
                   !.loc = Put(Put(@, meanField, round(calcMean(series[name]))),
                               stdField, round(calcStd(series[name])))]
  ELSE Ended(run, "failed", "TypeError")

\* one of the setStateAsync calls of lines 194-222 returns: the state is
\* written, and the code up to the next setStateAsync call runs
StatStateReturns(r) ==
  LET run == runs[r]
      name == activeTestName(run)
      field == StatFields[run.si]
      iterations == config.iterations
      wrote == [run EXCEPT !.wrote = @ \cup {name}]
  IN /\ run.pc = "set"
     /\ run.si <= 10
     /\ states' = Put(states, <<name, field>>, run.loc[field])
     /\ runs' = [runs EXCEPT ![r] =
          CASE run.si = 2 -> WithStats(wrote, cpuStats, name, "cpuMean", "cpuStd")
            [] run.si = 4 -> WithStats(wrote, memStats, name, "memMean", "memStd")
            [] run.si = 6 -> WithStats(wrote, internalEventLoopLags, name,
                                       "eventLoopLagMean", "eventLoopLagStd")
            [] run.si = 8 ->
                 [wrote EXCEPT !.si = @ + 1,
                    !.loc = Put(Put(@, "actionsPerSecondMean",
                                    actionsPerSecondMean(iterations, run.loc["timeMean"])),
                                "actionsPerSecondStd",
                                actionsPerSecondStd(iterations, run.loc["timeStd"]))]
            [] run.si = 10 ->
                 [wrote EXCEPT !.si = @ + 1,
                    !.loc = Put(@, "summary",
                                SummaryState(run.loc, requestedMonitoring, iterations))]
            [] OTHER -> [wrote EXCEPT !.si = @ + 1]]
     /\ UNCHANGED <<config, secondaryVars, activeTest, monitoringActive, seriesVars, requestedMonitoring,
                    restartVars, samplerVars, hostVars, lastMessage>>

\* lines 269-272: the loop over this.restartInstances begins with its first
\* getForeignObjectAsync, or there is nothing to restart
BeginRestart(run) ==
  IF /\ config.isolatedRun
     /\ restartInstances # 0
     /\ Len(arrays[restartInstances]) >= 1
  THEN [Ended(run, "rget", "") EXCEPT !.at = "", !.k = 1, !.arr = restartInstances]
  ELSE Ended(run, "done", "")

\* line 257 returns: the summary is written, lines 260-263 free the series and
\* the reports; then the next workload (138-143) or the end of the run (267-272)
SummaryReturns(r) ==
  LET name == activeTestName(runs[r])
      run == [runs[r] EXCEPT !.summaries = Append(@, name)]
  IN /\ runs[r].pc = "set"
     /\ runs[r].si = 11
     /\ states' = Put(states, <<name, "summary">>, JSONstringify(run.loc["summary"]))
     /\ requestedMonitoring' = EmptyMap
     /\ IF run.wi < Len(run.sel)
        THEN LET nxt == run.sel[run.wi + 1]
             IN /\ cpuStats' = InitSeries(Delete(cpuStats, name), nxt)
                /\ memStats' = InitSeries(Delete(memStats, name), nxt)
                /\ internalEventLoopLags' =
                     InitSeries(Delete(internalEventLoopLags, name), nxt)
                /\ runs' = [runs EXCEPT ![r] =
                              [run EXCEPT !.wi = @ + 1, !.j = 0, !.si = 0,
                                          !.loc = EmptyMap, !.pc = "chan",
                                          !.times = InitSeries(@, nxt)]]
                /\ UNCHANGED <<monitoringActive, lagTimers>>
        ELSE /\ cpuStats' = Delete(cpuStats, name)
             /\ memStats' = Delete(memStats, name)
             /\ internalEventLoopLags' = Delete(internalEventLoopLags, name)
             /\ monitoringActive' = FALSE
             /\ lagTimers' = Deactivated(lagTimers)
             /\ runs' = [runs EXCEPT ![r] = BeginRestart(run)]
     /\ UNCHANGED <<config, secondaryVars, activeTest, restartVars, monitors, hostVars,
                    lastMessage>>

\* line 272 returns the object (the host's instance objects are never deleted):
\* lines 274-275 call setForeignObjectAsync
GetObjectReturns(r) ==
  /\ runs[r].pc = "rget"
  /\ runs' = [runs EXCEPT ![r].pc = "rset"]
  /\ UNCHANGED <<config, secondaryVars, activeTest, monitoringActive, seriesVars, requestedMonitoring,
                 restartVars, samplerVars, hostVars, states, lastMessage>>

\* line 275 returns: the instance is enabled; the loop goes on over the array
\* it iterates
RestartReturns(r) ==
  LET run == runs[r]
      id == arrays[run.arr][run.k]
      run2 == [run EXCEPT !.restarted = @ \cup {id}]
  IN /\ run.pc = "rset"
     /\ objects' = [objects EXCEPT ![id] = TRUE]
     /\ ownWrites' = ownWrites + (IF id = OwnId THEN 1 ELSE 0)
     /\ runs' = [runs EXCEPT ![r] =
                   IF run.k + 1 <= Len(arrays[run.arr])
                   THEN [run2 EXCEPT !.k = @ + 1, !.pc = "rget"]
                   ELSE Ended(run2, "done", "")]
     /\ UNCHANGED <<config, secondaryVars, activeTest, monitoringActive, seriesVars, requestedMonitoring,
                    restartVars, samplerVars, states, lastMessage>>

\* the awaits that can reject: every storage call and every workload phase
\* (wait() cannot)
RejectingPcs ==
  {"view", "stop", "chan", "objs", "prepare", "execute", "cleanUp", "set", "rget", "rset"}

\* an awaited call rejects, and a handler that runTests does not have enables
\* the stopped instances again before the activation ends
AwaitRejectsRestoring(r) ==
  LET run == runs[r]
  IN /\ run.pc \in RejectingPcs
     /\ runs' = [runs EXCEPT ![r] =
                   [Ended(run, "failed", "rejected") EXCEPT !.restarted = run.stopped]]
     /\ objects' = [id \in DOMAIN objects |-> objects[id] \/ id \in run.stopped]
     /\ UNCHANGED <<config, secondaryVars, activeTest, monitoringActive, seriesVars, requestedMonitoring,
                    restartVars, samplerVars, ownWrites, states, lastMessage>>

\* an awaited call rejects: nothing in runTests catches it, the activation ends
AwaitRejects(r) ==
  /\ runs[r].pc \in RejectingPcs
  /\ runs' = [runs EXCEPT ![r] = Ended(runs[r], "failed", "rejected")]
  /\ UNCHANGED <<config, secondaryVars, activeTest, monitoringActive, seriesVars, requestedMonitoring,
                 restartVars, samplerVars, hostVars, states, lastMessage>>

(***************************************************************************)
(* monitorStats (lines 442-453) and measureEventLoopLag (471-503).         *)
(***************************************************************************)
\* line 444 returns stats.  With a marker set the sample is appended to the
\* series of the marker (a TypeError when the series is missing ends the
\* loop); then the loop waits (line 451)
MonitorProbeReturns(stats) ==
  /\ monitors.probe > 0
  /\ IF activeTest = "none"
     THEN /\ monitors' = [probe |-> monitors.probe - 1, wait |-> monitors.wait + 1]
          /\ UNCHANGED <<cpuStats, memStats>>
     ELSE IF ~Has(cpuStats, activeTest)
     THEN /\ monitors' = [monitors EXCEPT !.probe = @ - 1]
          /\ UNCHANGED <<cpuStats, memStats>>
     ELSE /\ Len(cpuStats[activeTest]) < MaxSamples
          /\ cpuStats' = [cpuStats EXCEPT ![activeTest] = Append(@, stats.cpu)]
          /\ IF Has(memStats, activeTest)
             THEN /\ memStats' = [memStats EXCEPT ![activeTest] = Append(@, stats.memory)]
                  /\ monitors' = [probe |-> monitors.probe - 1, wait |-> monitors.wait + 1]
             ELSE /\ monitors' = [monitors EXCEPT !.probe = @ - 1]
                  /\ UNCHANGED memStats
  /\ UNCHANGED <<config, secondaryVars, activeTest, monitoringActive, internalEventLoopLags,
                 requestedMonitoring, restartVars, runs, lagTimers, hostVars, states,
                 lastMessage>>

\* line 444 rejects: the loop ends
MonitorProbeFails ==
  /\ monitors.probe > 0
  /\ monitors' = [monitors EXCEPT !.probe = @ - 1]
  /\ UNCHANGED <<config, secondaryVars, activeTest, monitoringActive, seriesVars, requestedMonitoring,
                 restartVars, runs, lagTimers, hostVars, states, lastMessage>>

\* line 451 returns: line 443 tests the flag and probes again, or the loop ends
MonitorWaitReturns ==
  /\ monitors.wait > 0
  /\ monitors' = IF monitoringActive
                 THEN [probe |-> monitors.probe + 1, wait |-> monitors.wait - 1]
                 ELSE [monitors EXCEPT !.wait = @ - 1]
  /\ UNCHANGED <<config, secondaryVars, activeTest, monitoringActive, seriesVars, requestedMonitoring,
                 restartVars, runs, lagTimers, hostVars, states, lastMessage>>

\* a timer of a lag chain fires (check, lines 476-494): the callback of lines
\* 129-133 appends the lag to the series of the marker (a TypeError when the
\* series is missing ends the chain); the chain reschedules itself while the
\* flag is set
LagTimerFires(lag, kind) ==
  /\ lagTimers[kind] > 0
  /\ IF activeTest = "none"
     THEN /\ lagTimers' = AfterFire(lagTimers, kind, monitoringActive)
          /\ UNCHANGED internalEventLoopLags
     ELSE IF ~Has(internalEventLoopLags, activeTest)
     THEN /\ lagTimers' = AfterFire(lagTimers, kind, FALSE)
          /\ UNCHANGED internalEventLoopLags
     ELSE /\ Len(internalEventLoopLags[activeTest]) < MaxSamples
          /\ internalEventLoopLags' =
               [internalEventLoopLags EXCEPT ![activeTest] = Append(@, lag)]
          /\ lagTimers' = AfterFire(lagTimers, kind, monitoringActive)
  /\ UNCHANGED <<config, secondaryVars, activeTest, monitoringActive, cpuStats, memStats,
                 requestedMonitoring, restartVars, runs, monitors, hostVars, states,
                 lastMessage>>

(***************************************************************************)
(* onMessage on a primary (lines 286-319, 399-400).  Nothing in the branch *)
(* awaits: the whole handler is one step.                                  *)
(* A message payload is null, an object (with the fields that hold arrays) *)
(* or anything else (a string, a number, undefined).                       *)
(***************************************************************************)
NullMessage == [k |-> "null", arrays |-> EmptyMap]
OtherMessage == [k |-> "other", arrays |-> EmptyMap]
ObjectMessage(arrs) == [k |-> "object", arrays |-> arrs]

\* the payload of a message whose handler reads none
Unread == [k |-> "unread", arrays |-> EmptyMap]

\* typeof obj.message === 'object'
TypeofObject(message) == message.k \in {"null", "object"}

\* line 400 left out: the handler returns without the reply
noReply(acks) == acks

\* line 400: the reply that resolves the sender's promise
sendTo(acks) == acks + 1

Returned(from, command) ==
  [from |-> from, command |-> command, outcome |-> "returned", acks |-> sendTo(0),
   message |-> Unread]
Threw(from, command) ==
  [from |-> from, command |-> command, outcome |-> "threw", acks |-> 0,
   message |-> Unread]

\* the activations of runTests that were made
Started == {r \in RunIds : runs[r].pc # "none"}

\* lines 289-294 with the whole registry selected by every command
selectedTestsAll(command) == allTests

\* lines 289-294: the workloads runTests is called with
selectedTests(command) == IF command = "test" THEN allTests ELSE <<command>>

\* lines 289-295 and 400: 'test' or the id of a workload calls runTests, which
\* is not awaited, and the reply is sent.  limit bounds the activations.
OnTrigger(from, command, limit) ==
  LET r == Cardinality(Started) + 1
  IN /\ ~config.secondaryMode
     /\ command = "test" \/ allTestsHas(command)
     /\ r <= limit
     /\ RunTestsCall(r, selectedTests(command), sendTo(0))
     /\ lastMessage' = Returned(from, command)
     /\ UNCHANGED <<config, secondaryVars, activeTest, hostVars, states>>

EmptyEntry == [cpuStats |-> <<>>, memStats |-> <<>>, eventLoopLags |-> <<>>, time |-> <<>>]

\* lines 302-316 with the entry spread after the payload
MergeEntryPrepended(entry, message) ==
  [field \in DOMAIN entry |->
     IF TypeofObject(message) /\ Has(message.arrays, field)
     THEN message.arrays[field] \o entry[field]
     ELSE entry[field]]

\* lines 302-316: the arrays of the payload are appended to the entry
MergeEntry(entry, message) ==
  [field \in DOMAIN entry |->
     IF TypeofObject(message) /\ Has(message.arrays, field)
     THEN entry[field] \o message.arrays[field]
     ELSE entry[field]]

\* lines 296-316 and 400: a report.  The entry of the sender is created first;
\* a null payload then throws a TypeError at line 302 (typeof null is 'object',
\* null.cpuStats throws), and line 400 is not reached
OnRequestedMonitoring(from, message) ==
  LET entry == IF Has(requestedMonitoring, from) THEN requestedMonitoring[from]
               ELSE EmptyEntry
      merged == MergeEntry(entry, message)
  IN /\ ~config.secondaryMode
     /\ \A field \in DOMAIN merged : Len(merged[field]) <= MaxReported
     /\ IF message.k = "null"
        THEN /\ requestedMonitoring' = Put(requestedMonitoring, from, entry)
             /\ lastMessage' = [Threw(from, "requestedMonitoring") EXCEPT
                                  !.message = message]
        ELSE /\ requestedMonitoring' = Put(requestedMonitoring, from, merged)
             /\ lastMessage' = [Returned(from, "requestedMonitoring") EXCEPT
                                  !.message = message]
     /\ UNCHANGED <<config, secondaryVars, activeTest, monitoringActive, seriesVars, restartVars, runs,
                    samplerVars, hostVars, states>>

\* lines 317-319 and 400: any other command is logged and answered
OnUnknown(from, command) ==
  /\ ~config.secondaryMode
  /\ command # "test" /\ ~allTestsHas(command) /\ command # "requestedMonitoring"
  /\ lastMessage' = Returned(from, command)
  /\ UNCHANGED <<config, secondaryVars, activeTest, monitoringActive, seriesVars, requestedMonitoring,
                 restartVars, runs, samplerVars, hostVars, states>>

(***************************************************************************)
(* onMessage on a secondary (lines 320-400).  An activation is suspended   *)
(* at a storage call of a loop (pc "store": lines 326, 341, 351, 355) or   *)
(* at sendToAsync (pc "send": line 387); it ends "returned", after the     *)
(* reply of line 400, or "threw", without it.  The payload of 'objects'    *)
(* and 'states' is null, an object {cmd, n} (num: n is a number) or        *)
(* anything else.                                                          *)
(***************************************************************************)
HandlerIds == 1..MaxHandlers

NoHandler ==
  [pc |-> "none", from |-> "", command |-> "", cmd |-> "", num |-> FALSE, n |-> 0, i |-> 0,
   acks |-> 0, before |-> {}, after |-> {}, overlapped |-> FALSE, sent |-> 0,
   since |-> 0]

\* Of a handler record, command, cmd, num, n and i are the code's (obj.command,
\* obj.message.cmd, whether obj.message.n is a number, obj.message.n, the loop
\* variable).  The others record what
\* the activation did: acks (replies sent), before and after (the ids in the
\* store it works on when it began and when it ended), overlapped (another
\* activation worked on the same store meanwhile), sent (the position in the
\* outbox of the report it sent, 0 for none), since (the start timestamp it
\* read).

CommandMessage(cmd, num, n) == [k |-> "object", cmd |-> cmd, num |-> num, n |-> n]
NoCommand == [k |-> "other", cmd |-> "", num |-> FALSE, n |-> 0]
NullCommand == [k |-> "null", cmd |-> "", num |-> FALSE, n |-> 0]

\* the activations made so far, and the next one
Handled == {h \in HandlerIds : handlers[h].pc # "none"}
NextHandler == Cardinality(Handled) + 1

\* the store a command works on
StoreOf(command) == IF command = "objects" THEN ownObjects ELSE ownStates

\* the activations suspended in a loop over the store of command
Storing(command) ==
  {h \in HandlerIds : handlers[h].pc = "store" /\ handlers[h].command = command}

\* the storage calls with ids that count from 1
StoreCallFromOne(store, cmd, i) ==
  IF cmd = "set" THEN store \cup {i + 1} ELSE store \ {i + 1}

\* lines 326-338 and 351 (set), 341 and 355 (del): the effect of the storage
\* call for index i
StoreCall(store, cmd, i) == IF cmd = "set" THEN store \cup {i} ELSE store \ {i}

\* lines 323-358 and 400: 'objects' or 'states'.  A null payload throws at
\* line 325 (null.cmd); a payload that asks for nothing is answered at once;
\* otherwise the first storage call of the loop is awaited
OnStore(from, command, message) ==
  LET h == NextHandler
      new == [NoHandler EXCEPT !.from = from, !.command = command,
                               !.cmd = message.cmd, !.num = message.num,
                               !.n = message.n,
                               !.before = StoreOf(command)]
      loops == /\ message.k = "object" /\ message.cmd \in {"set", "del"}
               /\ message.num /\ message.n > 0
  IN /\ config.secondaryMode
     /\ command \in {"objects", "states"}
     /\ h \in HandlerIds
     /\ handlers' =
          IF message.k = "null"
          THEN [handlers EXCEPT ![h] = [new EXCEPT !.pc = "threw",
                                                   !.after = StoreOf(command)]]
          ELSE IF ~loops
          THEN [handlers EXCEPT ![h] = [new EXCEPT !.pc = "returned",
                                                   !.acks = sendTo(0),
                                                   !.after = StoreOf(command)]]
          ELSE [g \in HandlerIds |->
                  IF g = h
                  THEN [new EXCEPT !.pc = "store",
                                   !.overlapped = Storing(command) # {}]
                  ELSE IF g \in Storing(command)
                  THEN [handlers[g] EXCEPT !.overlapped = TRUE]
                  ELSE handlers[g]]
     /\ UNCHANGED <<config, activeTest, monitoringActive, seriesVars, requestedMonitoring,
                    restartVars, runs, samplerVars, hostVars, states, lastMessage,
                    ownObjects, ownStates, requestedMonitoringStartTime, outbox>>

\* the storage call of a loop returns: the object or state of index i is set
\* or deleted; the loop goes on, or line 400 replies
StoreCallReturns(h) ==
  LET handler == handlers[h]
      store == StoreCall(StoreOf(handler.command), handler.cmd, handler.i)
  IN /\ handler.pc = "store"
     /\ IF handler.command = "objects"
        THEN ownObjects' = store /\ UNCHANGED ownStates
        ELSE ownStates' = store /\ UNCHANGED ownObjects
     /\ handlers' = [handlers EXCEPT ![h] =
                       IF handler.i + 1 < handler.n
                       THEN [handler EXCEPT !.i = @ + 1]
                       ELSE [handler EXCEPT !.pc = "returned", !.i = @ + 1,
                                            !.acks = sendTo(@), !.after = store]]
     /\ UNCHANGED <<config, activeTest, monitoringActive, seriesVars, requestedMonitoring,
                    restartVars, runs, samplerVars, hostVars, states, lastMessage,
                    requestedMonitoringStartTime, outbox>>

\* an awaited call of a handler rejects: onMessage catches nothing, the
\* activation ends before line 400
HandlerAwaitRejects(h) ==
  LET handler == handlers[h]
  IN /\ handler.pc \in {"store", "send"}
     /\ handlers' = [handlers EXCEPT ![h] =
                       [handler EXCEPT !.pc = "threw",
                                       !.after = StoreOf(handler.command)]]
     /\ UNCHANGED <<config, activeTest, monitoringActive, seriesVars, requestedMonitoring,
                    restartVars, runs, samplerVars, hostVars, states, lastMessage,
                    ownObjects, ownStates, requestedMonitoringStartTime, outbox>>

\* lines 360-373 and 400: 'startMeasuring' sets the marker and the flag, makes
\* the three series anew, takes the start timestamp (here: the number of the
\* activation that took it), starts both samplers and replies
OnStartMeasuring(from) ==
  LET h == NextHandler
  IN /\ config.secondaryMode
     /\ h \in HandlerIds
     /\ activeTest' = "requestedMonitoring"
     /\ monitoringActive' = TRUE
     /\ cpuStats' = Put(cpuStats, "requestedMonitoring", <<>>)
     /\ memStats' = Put(memStats, "requestedMonitoring", <<>>)
     /\ internalEventLoopLags' = Put(internalEventLoopLags, "requestedMonitoring", <<>>)
     /\ requestedMonitoringStartTime' = h
     /\ monitors' = [monitors EXCEPT !.probe = @ + 1]
     /\ lagTimers' = StartChain(lagTimers)
     /\ handlers' = [handlers EXCEPT ![h] =
                       [NoHandler EXCEPT !.pc = "returned", !.from = from,
                                         !.command = "startMeasuring",
                                         !.acks = sendTo(0)]]
     /\ UNCHANGED <<config, requestedMonitoring, restartVars, runs, hostVars, states,
                    lastMessage, ownObjects, ownStates, outbox>>

\* a series of the secondary, undefined when it was deleted
Measured(series) ==
  IF Has(series, "requestedMonitoring") THEN series["requestedMonitoring"] ELSE Null

\* lines 379-384: the report, built from the series and from hr =
\* process.hrtime(this.requestedMonitoringStartTime); since names the start
\* timestamp that was read, hr keeps the pair, answered tells whether the
\* primary has handled the message and replied to it
RequestedMonitoringEntry(hr) ==
  [eventLoopLags |-> Measured(internalEventLoopLags),
   memStats |-> Measured(memStats),
   cpuStats |-> Measured(cpuStats),
   time |-> <<parseFloatJoin(hr)>>,
   since |-> requestedMonitoringStartTime,
   hr |-> hr,
   answered |-> FALSE]

\* lines 388-392: the series and the start timestamp are deleted
FreeRam ==
  /\ internalEventLoopLags' = Delete(internalEventLoopLags, "requestedMonitoring")
  /\ memStats' = Delete(memStats, "requestedMonitoring")
  /\ cpuStats' = Delete(cpuStats, "requestedMonitoring")
  /\ requestedMonitoringStartTime' = 0

\* lines 374-400 with the send of line 386 not awaited: the report is sent,
\* and the handler frees and replies in the same turn
OnStopMeasuringUnawaited(from, hr) ==
  LET h == NextHandler
      new == [NoHandler EXCEPT !.from = from, !.command = "stopMeasuring",
                               !.pc = "returned", !.acks = sendTo(0)]
  IN /\ config.secondaryMode
     /\ h \in HandlerIds
     /\ activeTest' = "none"
     /\ monitoringActive' = FALSE
     /\ lagTimers' = Deactivated(lagTimers)
     /\ FreeRam
     /\ IF requestedMonitoringStartTime # 0
        THEN /\ outbox' = Append(outbox, RequestedMonitoringEntry(hr))
             /\ handlers' = [handlers EXCEPT ![h] =
                               [new EXCEPT !.sent = Len(outbox) + 1,
                                           !.since = requestedMonitoringStartTime]]
        ELSE /\ handlers' = [handlers EXCEPT ![h] = new]
             /\ UNCHANGED outbox
     /\ UNCHANGED <<config, requestedMonitoring, restartVars, runs, monitors, hostVars,
                    states, lastMessage, ownObjects, ownStates>>

\* lines 374-387: 'stopMeasuring' clears the marker and the flag; with a start
\* timestamp it sends the report and awaits the answer (line 386), without
\* one it frees and replies at once (lines 388-400)
OnStopMeasuring(from, hr) ==
  LET h == NextHandler
      new == [NoHandler EXCEPT !.from = from, !.command = "stopMeasuring"]
  IN /\ config.secondaryMode
     /\ h \in HandlerIds
     /\ activeTest' = "none"
     /\ monitoringActive' = FALSE
     /\ lagTimers' = Deactivated(lagTimers)
     /\ IF requestedMonitoringStartTime # 0
        THEN /\ outbox' = Append(outbox, RequestedMonitoringEntry(hr))
             /\ handlers' = [handlers EXCEPT ![h] =
                               [new EXCEPT !.pc = "send", !.sent = Len(outbox) + 1,
                                           !.since = requestedMonitoringStartTime]]
             /\ UNCHANGED <<seriesVars, requestedMonitoringStartTime>>
        ELSE /\ FreeRam
             /\ handlers' = [handlers EXCEPT ![h] =
                               [new EXCEPT !.pc = "returned", !.acks = sendTo(0)]]
             /\ UNCHANGED outbox
     /\ UNCHANGED <<config, requestedMonitoring, restartVars, runs, monitors, hostVars,
                    states, lastMessage, ownObjects, ownStates>>

\* the primary (benchmark.0) runs its onMessage for report i of the outbox:
\* lines 296-316 merge it and line 400 replies to the secondary
ReportAnswered(i) ==
  /\ i \in DOMAIN outbox
  /\ ~outbox[i].answered
  /\ outbox' = [outbox EXCEPT ![i].answered = TRUE]
  /\ UNCHANGED <<config, activeTest, monitoringActive, seriesVars, requestedMonitoring,
                 restartVars, runs, samplerVars, hostVars, states, lastMessage,
                 handlers, ownObjects, ownStates, requestedMonitoringStartTime>>

\* line 386 returns, which it does once the primary has replied to the
\* report: lines 388-400 free the series and the start timestamp and reply
SendToReturns(h) ==
  /\ handlers[h].pc = "send"
  /\ outbox[handlers[h].sent].answered
  /\ FreeRam
  /\ handlers' = [handlers EXCEPT ![h].pc = "returned", ![h].acks = sendTo(@)]
  /\ UNCHANGED <<config, activeTest, monitoringActive, requestedMonitoring, restartVars,
                 runs, samplerVars, hostVars, states, lastMessage, ownObjects,
                 ownStates, outbox>>

(***************************************************************************)
(* The process after construction (lines 71-87), with its configuration    *)
(* and the host's instance objects.                                        *)
(***************************************************************************)
Controller == "system.adapter.admin.0"

Constructed ==
  /\ activeTest = "none"
  /\ monitoringActive = FALSE
  /\ memStats = EmptyMap
  /\ cpuStats = EmptyMap
  /\ internalEventLoopLags = EmptyMap
  /\ requestedMonitoring = EmptyMap
  /\ restartInstances = 0
  /\ arrays = [r \in RunIds |-> <<>>]
  /\ runs = [r \in RunIds |-> NoRun]
  /\ monitors = [probe |-> 0, wait |-> 0]
  /\ lagTimers = NoTimers
  /\ states = EmptyMap
  /\ ownWrites = 0
  /\ lastMessage = [from |-> "", command |-> "", outcome |-> "none", acks |-> 0,
                    message |-> Unread]
  /\ handlers = [h \in HandlerIds |-> NoHandler]
  /\ requestedMonitoringStartTime = 0
  /\ outbox = <<>>

\* the hosts the model starts from: the benchmark's own instance is enabled
Hosts == {o \in [InstanceSet -> BOOLEAN] : o[OwnId]}

\* what the clock, the probe and the lag measurement return in Spec
Elapsed == {<<1, 0>>}
ProbeStats == {[cpu |-> Rat(10, 1), memory |-> Rat(20, 1)]}
Lags == {Rat(0, 1)}
Reports ==
  {NullMessage, OtherMessage,
   ObjectMessage([f \in {"cpuStats", "memStats", "eventLoopLags", "time"} |->
                    <<Rat(1, 1)>>])}

\* a step of lines 105-113 or 271-277 of an activation of runTests: stopping
\* and restarting the other instances
IsolationStep(r) ==
  \/ ViewReturns(r)
  \/ StopReturns(r)
  \/ GetObjectReturns(r)
  \/ RestartReturns(r)

\* a step of lines 116-267 of an activation of runTests
BenchmarkStep(r, elapsed) ==
  \/ ChannelReturns(r)
  \/ TestObjectsReturn(r)
  \/ PrepareReturns(r)
  \/ \E hr \in elapsed : ExecuteReturns(r, hr)
  \/ CleanUpReturns(r)
  \/ CooldownEnds(r)
  \/ StatStateReturns(r)
  \/ SummaryReturns(r)
  \/ AwaitRejects(r)

\* a step of an activation of runTests
RunStep(r, elapsed) == IsolationStep(r) \/ BenchmarkStep(r, elapsed)

\* a step of a sampler
SamplerStep ==
  \/ \E stats \in ProbeStats : MonitorProbeReturns(stats)
  \/ MonitorProbeFails
  \/ MonitorWaitReturns
  \/ \E lag \in Lags, kind \in TimerKinds : LagTimerFires(lag, kind)

(***************************************************************************)
(* Spec: a primary whose controller triggers runs of single workloads, up  *)
(* to MaxRuns of them, at any moment; every await may reject or never      *)
(* return.                                                                 *)
(***************************************************************************)
Init ==
  /\ Constructed
  /\ config \in [secondaryMode : {FALSE}, isolatedRun : BOOLEAN,
                 iterations : {100}, epochs : 1..MaxEpochs]
  /\ objects \in Hosts
  /\ ~config.isolatedRun => \A id \in InstanceSet : objects[id]
  /\ ownObjects = {} /\ ownStates = {}

Next ==
  \/ \E command \in TestNames : OnTrigger(Controller, command, MaxRuns)
  \/ \E r \in RunIds : RunStep(r, Elapsed)

Spec == Init /\ [][Next]_vars

(***************************************************************************)
(* SpecRun: a primary whose controller triggers one run, of all workloads  *)
(* or of one; the samplers run, and messages that start no run arrive at   *)
(* any moment: reports without data and an unknown command.                *)
(***************************************************************************)
Commands == TestNames \cup {"test"}
Reporter == "system.adapter.benchmark.1"
Malformed == {NullMessage, OtherMessage}

NextRun ==
  \/ \E command \in Commands : OnTrigger(Controller, command, 1)
  \/ \E r \in RunIds : RunStep(r, Elapsed)
  \/ SamplerStep
  \/ \E message \in Malformed : OnRequestedMonitoring(Reporter, message)
  \/ OnUnknown(Controller, "stop")

SpecRun == Init /\ [][NextRun]_vars

(***************************************************************************)
(* SpecSummary: a primary without isolation whose controller triggers one  *)
(* run while two secondaries report; the epochs take one or three seconds, *)
(* a report carries all four series, only a time, or no data.              *)
(***************************************************************************)
ElapsedSeconds == {<<1, 0>>, <<3, 0>>}
SummaryReports ==
  {OtherMessage,
   ObjectMessage([f \in {"cpuStats", "memStats", "eventLoopLags", "time"} |->
                    <<Rat(3, 1)>>]),
   ObjectMessage([f \in {"time"} |-> <<Rat(1, 1)>>])}

InitSummary ==
  /\ Constructed
  /\ config \in [secondaryMode : {FALSE}, isolatedRun : {FALSE},
                 iterations : {100}, epochs : 1..MaxEpochs]
  /\ objects = [id \in InstanceSet |-> TRUE]
  /\ ownObjects = {} /\ ownStates = {}

NextSummary ==
  \/ \E command \in TestNames : OnTrigger(Controller, command, 1)
  \/ \E r \in RunIds : BenchmarkStep(r, ElapsedSeconds)
  \/ \E from \in Senders, message \in SummaryReports :
       OnRequestedMonitoring(from, message)

SpecSummary == InitSummary /\ [][NextSummary]_vars

(***************************************************************************)
(* SpecObjects: a secondary whose controller sends 'objects' and 'states'  *)
(* messages at any moment; the object store holds any of the test objects *)
(* beforehand; storage calls may reject.                                   *)
(***************************************************************************)
TestIds == 0..(MaxObjects - 1)

\* the payloads of 'objects': null, no object, n that is no number, and set /
\* del of 1..MaxObjects objects; those of 'states': set / del of one state
ObjectsMessages ==
  {NullCommand, NoCommand, CommandMessage("set", FALSE, 1)}
    \cup {CommandMessage(cmd, TRUE, n) : cmd \in {"set", "del"}, n \in 1..MaxObjects}
StatesMessages == {CommandMessage(cmd, TRUE, 1) : cmd \in {"set", "del"}}

InitSecondary ==
  /\ Constructed
  /\ config \in [secondaryMode : {TRUE}, isolatedRun : {FALSE},
                 iterations : {100}, epochs : {1}]
  /\ objects = [id \in InstanceSet |-> TRUE]

InitObjects ==
  /\ InitSecondary
  /\ ownObjects \in SUBSET TestIds
  /\ ownStates = {}

NextObjects ==
  \/ \E message \in ObjectsMessages : OnStore(Controller, "objects", message)
  \/ \E message \in StatesMessages : OnStore(Controller, "states", message)
  \/ \E h \in HandlerIds : StoreCallReturns(h)
  \/ \E h \in HandlerIds : HandlerAwaitRejects(h)

SpecObjects == InitObjects /\ [][NextObjects]_vars

(***************************************************************************)
(* SpecMeasuring: a secondary whose controller sends 'startMeasuring' and  *)
(* 'stopMeasuring', up to MaxHandlers messages, at any moment; the         *)
(* samplers run; the primary answers a report at some moment or never.     *)
(***************************************************************************)
InitMeasuring ==
  /\ InitSecondary
  /\ ownObjects = {} /\ ownStates = {}

NextMeasuring ==
  \/ OnStartMeasuring(Controller)
  \/ \E hr \in Elapsed : OnStopMeasuring(Controller, hr)
  \/ \E i \in HandlerIds : ReportAnswered(i)
  \/ \E h \in HandlerIds : SendToReturns(h)
  \/ SamplerStep

SpecMeasuring == InitMeasuring /\ [][NextMeasuring]_vars

(***************************************************************************)
(* SpecElapsed: the secondary of SpecMeasuring with measurements that last *)
(* 0 or 1 seconds and 0, 5, 40 or 500 milliseconds.                        *)
(***************************************************************************)
HrPairs == {<<s, ns>> : s \in {0, 1}, ns \in {0, 5000000, 40000000, 500000000}}

NextElapsed ==
  \/ OnStartMeasuring(Controller)
  \/ \E hr \in HrPairs : OnStopMeasuring(Controller, hr)
  \/ \E i \in HandlerIds : ReportAnswered(i)
  \/ \E h \in HandlerIds : SendToReturns(h)
  \/ SamplerStep

SpecElapsed == InitMeasuring /\ [][NextElapsed]_vars

(***************************************************************************)
(* SpecSamplers: a primary without isolation whose controller triggers up  *)
(* to MaxRuns runs of one epoch, at any moment, while the samplers run.    *)
(***************************************************************************)
InitSamplers ==
  /\ Constructed
  /\ config \in [secondaryMode : {FALSE}, isolatedRun : {FALSE},
                 iterations : {100}, epochs : {1}]
  /\ objects = [id \in InstanceSet |-> TRUE]
  /\ ownObjects = {} /\ ownStates = {}

NextSamplers ==
  \/ \E command \in TestNames : OnTrigger(Controller, command, MaxRuns)
  \/ \E r \in RunIds : BenchmarkStep(r, Elapsed)
  \/ SamplerStep

SpecSamplers == InitSamplers /\ [][NextSamplers]_vars

(***************************************************************************)
(* SpecStop: SpecSamplers for runs of the first workload, with the         *)
(* scheduling of the samplers: a pending timer fires, wait() returns, and  *)
(* pidusage returns or rejects.  Nothing is assumed of the awaits of       *)
(* runTests, which may never return.                                       *)
(***************************************************************************)
NextStop ==
  \/ OnTrigger(Controller, allTests[1], MaxRuns)
  \/ \E r \in RunIds : BenchmarkStep(r, Elapsed)
  \/ SamplerStep

SamplersScheduled ==
  /\ WF_vars(MonitorProbeFails \/ \E stats \in ProbeStats : MonitorProbeReturns(stats))
  /\ WF_vars(MonitorWaitReturns)
  /\ WF_vars(\E lag \in Lags, kind \in TimerKinds : LagTimerFires(lag, kind))

SpecStop == InitSamplers /\ [][NextStop]_vars /\ SamplersScheduled

(***************************************************************************)
(* SpecCommands: a primary that receives any command: 'test', the id of a  *)
(* workload, a key the registry inherits, the commands of a secondary,     *)
(* reports; at most one run is started.                                    *)
(***************************************************************************)
SecondaryCommands == {"objects", "states", "startMeasuring", "stopMeasuring"}

NextCommands ==
  \/ \E command \in Commands \cup ObjectPrototypeKeys : OnTrigger(Controller, command, 1)
  \/ \E command \in SecondaryCommands : OnUnknown(Controller, command)
  \/ \E message \in SummaryReports : OnRequestedMonitoring(Reporter, message)
  \/ \E r \in RunIds : RunStep(r, Elapsed)

SpecCommands == Init /\ [][NextCommands]_vars

(***************************************************************************)
(* Properties.                                                             *)
(***************************************************************************)
\* C1: every message handled by onMessage is answered with exactly one reply,
\* whatever its command and payload
C1_ExactlyOneAck == lastMessage.outcome # "none" => lastMessage.acks = 1

\* the activations whose execute() is in progress
Executing == {r \in RunIds : runs[r].pc = "execute"}

\* C2: while an execute() is in progress the marker is the id of its workload;
\* while none is, the marker is 'none' (on a secondary that is measuring,
\* 'requestedMonitoring')
C2_MarkerInvariant ==
  /\ \A r \in Executing : activeTest = activeTestName(runs[r])
  /\ Executing = {} =>
       \/ activeTest = "none"
       \/ config.secondaryMode /\ activeTest = "requestedMonitoring"

\* C3: at any moment at most one execute() is in progress, whatever trigger
\* commands arrive
C3_NoEpochOverlap == Cardinality(Executing) <= 1

\* the awaits of the epoch loop (lines 162-188)
EpochPcs == {"prepare", "execute", "cleanUp", "cooldown"}

C4_Step(a, b) ==
  /\ b.pc = "prepare" =>
       /\ a.pc \in {"objs", "cooldown"}
       /\ b.inst = a.inst + 1
       /\ b.phases = <<"prepare">>
       /\ b.j = IF a.pc = "objs" THEN 1 ELSE a.j + 1
       /\ b.wi = a.wi
  /\ b.pc = "execute" =>
       a.pc = "prepare" /\ b.inst = a.inst /\ b.phases = <<"prepare", "execute">>
  /\ b.pc = "cleanUp" =>
       /\ a.pc = "execute" /\ b.inst = a.inst
       /\ b.phases = <<"prepare", "execute", "cleanUp">>
  /\ b.pc = "cooldown" =>
       a.pc = "cleanUp" /\ b.inst = a.inst /\ b.phases = a.phases
  /\ a.pc = "cooldown" => b.pc = IF a.j < config.epochs THEN "prepare" ELSE "set"
  /\ b.pc \in EpochPcs =>
       b.j \in 1..config.epochs /\ b.inst = (b.wi - 1) * config.epochs + b.j

\* C4: in a run, every epoch of every selected workload creates one workload
\* instance and calls prepare(), execute() and cleanUp() on it in this order,
\* each after the one before has returned; the next epoch is begun by the end
\* of the cooldown that follows cleanUp(), and by nothing else
C4_Lifecycle ==
  [][\A r \in RunIds : runs'[r].pc # runs[r].pc => C4_Step(runs[r], runs'[r])]_vars

\* the last epoch of the last of two workloads, each of two epochs, is over
C4_Witness ==
  \E r \in RunIds :
    /\ runs[r].pc = "cooldown" /\ runs[r].phases = <<"prepare", "execute", "cleanUp">>
    /\ config.epochs > 1 /\ runs[r].j = config.epochs
    /\ Len(runs[r].sel) > 1 /\ runs[r].wi = Len(runs[r].sel)
    /\ runs[r].inst = Len(runs[r].sel) * config.epochs

\* C5: when the time statistics of a workload are reduced its time series
\* holds exactly config.epochs entries, whatever the samplers appended and
\* whatever messages arrived meanwhile
C5_TimesPerEpoch ==
  \A r \in RunIds :
    runs[r].pc = "set" =>
      Len(runs[r].times[activeTestName(runs[r])]) = config.epochs

\* a reduction after two epochs, during which the samplers appended one sample
\* each and a report arrived
C5_Witness ==
  \E r \in RunIds :
    /\ runs[r].pc = "set" /\ runs[r].si = 1 /\ config.epochs = 2
    /\ Len(runs[r].times[activeTestName(runs[r])]) = 2
    /\ Len(cpuStats[activeTestName(runs[r])]) = 1
    /\ Len(internalEventLoopLags[activeTestName(runs[r])]) = 1
    /\ Has(requestedMonitoring, Reporter)

\* C6: the message that started a run has been answered, once, from the call
\* of runTests on: before the first execute(), and whether the run goes on,
\* hangs or fails
C6_AckedAtOnce ==
  \A r \in RunIds : runs[r].pc # "none" => runs[r].acks = 1

\* a run whose first execute() failed; its trigger was answered
C6_Witness ==
  \E r \in RunIds :
    /\ runs[r].pc = "failed" /\ runs[r].at = "execute"
    /\ runs[r].acks = 1 /\ lastMessage.acks = 1

\* C7: when an isolated run completes, it has disabled exactly the other
\* instances that were enabled when it read them, all of these are enabled
\* again, the others are not, and the own instance object was never written
C7_IsolationRestored ==
  [][\A r \in RunIds :
       (config.isolatedRun /\ runs[r].pc # "done" /\ runs'[r].pc = "done") =>
         /\ runs'[r].stopped = runs'[r].before
         /\ \A id \in runs'[r].before : objects'[id]
         /\ \A id \in InstanceSet \ (runs'[r].before \cup {OwnId}) : ~objects'[id]
         /\ ownWrites' = 0]_vars

\* an activation that ended when a phase of a workload failed
Halted(run) == run.pc = "failed" /\ run.at \in {"prepare", "execute", "cleanUp"}

\* no activation but r was started
Alone(r) == \A q \in RunIds \ {r} : runs[q].pc = "none"

C8_State(r) ==
  LET run == runs[r]
      name == activeTestName(run)
  IN Halted(run) =>
       /\ name \notin run.wrote
       /\ run.restarted = {}
       /\ Alone(r) =>
            /\ \A field \in DOMAIN StatFields :
                 <<name, StatFields[field]>> \notin DOMAIN states
            /\ \A i \in DOMAIN run.sel :
                 i > run.wi => run.sel[i] \notin {w[1] : w \in DOMAIN states}
            /\ \A id \in run.before : ~objects[id]
            /\ run.stopped = run.before

\* C8: when prepare(), execute() or cleanUp() fails the activation ends there:
\* it takes no further step, it has persisted no state of the workload and has
\* enabled no instance; with no other activation, no state of this or a later
\* workload exists, none is written later, and the instances it disabled stay
\* disabled
C8_HaltsOnPhaseFailure ==
  [][\A r \in RunIds :
       /\ C8_State(r)'
       /\ Halted(runs[r]) =>
            /\ runs'[r] = runs[r]
            /\ Alone(r)' => (states' = states /\ objects' = objects)]_vars

\* an isolated run of all workloads that had disabled an instance halted in the
\* second workload, after the states of the first were written
C8_Witness ==
  \E r \in RunIds :
    /\ Halted(runs[r]) /\ runs[r].wi = 2 /\ runs[r].at = "execute"
    /\ runs[r].wrote = {runs[r].sel[1]}
    /\ config.isolatedRun /\ runs[r].stopped # {}
    /\ \A id \in runs[r].stopped : ~objects[id]

\* the step of activation r that builds the summary of a workload (lines
\* 224-255), from the reports held at that moment
Built(r) ==
  /\ runs[r].pc = "set" /\ runs[r].si = 10
  /\ runs'[r].pc = "set" /\ runs'[r].si = 11

\* the keys of "secondaries" are the senders of the reports held; without a
\* report there is no such key
C9_Keys(summary, reqMon) ==
  IF DOMAIN reqMon = {}
  THEN ~Has(summary, "secondaries")
  ELSE Has(summary, "secondaries") /\ DOMAIN summary["secondaries"] = DOMAIN reqMon

\* C9, with the rounding of lines 240-252: the summary that is built has a
\* "secondaries" entry for exactly the senders whose reports are held (no such
\* key without a report), and the actionsPerSecondMean of each entry is
\* iterations / timeMean / K rounded to two decimals, timeMean being the
\* entry's (rounded) time mean and K the number of senders
C9_SecondariesSplit ==
  [][\A r \in RunIds :
       Built(r) =>
         LET summary == runs'[r].loc["summary"]
             K == Cardinality(DOMAIN requestedMonitoring)
         IN /\ C9_Keys(summary, requestedMonitoring)
            /\ \A instance \in DOMAIN requestedMonitoring :
                 LET entry == summary["secondaries"][instance]
                 IN entry.actionsPerSecondMean =
                      round(Div(Div(Rat(config.iterations, 1), entry.timeMean),
                                Rat(K, 1)))]_vars

\* C9, without rounding: the keys as above, and the actionsPerSecondMean of
\* each entry whose time mean is a number other than 0 is exactly
\* iterations / timeMean / K
C9_SecondariesExact ==
  [][\A r \in RunIds :
       Built(r) =>
         LET summary == runs'[r].loc["summary"]
             K == Cardinality(DOMAIN requestedMonitoring)
         IN /\ C9_Keys(summary, requestedMonitoring)
            /\ \A instance \in DOMAIN requestedMonitoring :
                 LET entry == summary["secondaries"][instance]
                 IN (IsRat(entry.timeMean) /\ NotZero(entry.timeMean)) =>
                      NumEq(entry.actionsPerSecondMean,
                            Div(Div(Rat(config.iterations, 1), entry.timeMean),
                                Rat(K, 1)))]_vars

\* a summary with two secondaries, one of them with a time mean of 3:
\* 100 / 3 / 2 is persisted as 16.67
C9_Witness ==
  \E r \in RunIds :
    /\ runs[r].pc = "set" /\ runs[r].si = 11
    /\ Has(runs[r].loc["summary"], "secondaries")
    /\ LET secondaries == runs[r].loc["summary"]["secondaries"]
       IN /\ Cardinality(DOMAIN secondaries) = 2
          /\ \E instance \in DOMAIN secondaries :
               /\ secondaries[instance].timeMean = Rat(300, 100)
               /\ secondaries[instance].actionsPerSecondMean = Rat(1667, 100)

\* actionsPerSecondStd is a number, and 0 when timeStd is 0
C10_Finite(entry) ==
  /\ IsRat(entry.actionsPerSecondStd)
  /\ ~NotZero(entry.timeStd) => ~NotZero(entry.actionsPerSecondStd)

\* C10, by time series: in the primary's own summary, and in the summary of every
\* secondary whose time series is not empty, actionsPerSecondStd is a number
\* (not NaN, not Infinity) and is 0 when timeStd is 0; for a secondary whose
\* time series is empty, timeStd and actionsPerSecondStd are NaN
C10_StdOfActions ==
  [][\A r \in RunIds :
       Built(r) =>
         LET summary == runs'[r].loc["summary"]
         IN /\ C10_Finite(summary)
            /\ \A instance \in DOMAIN requestedMonitoring :
                 LET entry == summary["secondaries"][instance]
                 IN IF requestedMonitoring[instance].time = <<>>
                    THEN IsNaN(entry.timeStd) /\ IsNaN(entry.actionsPerSecondStd)
                    ELSE C10_Finite(entry)]_vars

\* C10, for every time series: in every summary, of the primary and of each
\* secondary, actionsPerSecondStd is a number and is 0 when timeStd is 0
C10_NeverNaN ==
  [][\A r \in RunIds :
       Built(r) =>
         LET summary == runs'[r].loc["summary"]
         IN /\ C10_Finite(summary)
            /\ \A instance \in DOMAIN requestedMonitoring :
                 C10_Finite(summary["secondaries"][instance])]_vars

\* a summary of two epochs of equal time (timeStd 0) with one secondary whose
\* time series is empty and one whose time series is <<1, 3>>
C10_Witness ==
  \E r \in RunIds :
    /\ runs[r].pc = "set" /\ runs[r].si = 11
    /\ ~NotZero(runs[r].loc["timeStd"])
    /\ runs[r].loc["summary"]["actionsPerSecondStd"] = Zero
    /\ Has(runs[r].loc["summary"], "secondaries")
    /\ LET secondaries == runs[r].loc["summary"]["secondaries"]
       IN /\ \E instance \in DOMAIN secondaries :
               IsNaN(secondaries[instance].actionsPerSecondStd)
          /\ \E instance \in DOMAIN secondaries :
               /\ secondaries[instance].timeStd = Rat(100, 100)
               /\ secondaries[instance].actionsPerSecondStd = Rat(5000, 100)

\* the ids test.0 .. test.(n-1)
IdsBelow(n) == 0..(n - 1)

\* an 'objects' message with cmd and n that was answered, handled while no
\* other 'objects' message was
Answered(h, cmd) ==
  /\ handlers[h].pc = "returned" /\ handlers[h].command = "objects"
  /\ handlers[h].cmd = cmd /\ handlers[h].num /\ handlers[h].n \in 1..MaxObjects
  /\ ~handlers[h].overlapped

\* a set of n objects answered, and the del of the same n that came next
SetThenDel(g, h) ==
  /\ h = g + 1 /\ Answered(g, "set") /\ Answered(h, "del")
  /\ handlers[g].n = handlers[h].n

C12_NoRescheduleAfterOff == lagTimers.revived = 0

\* a sample is appended to the series of key in one of the three maps
Appended(series, key) ==
  /\ key \in DOMAIN series /\ key \in DOMAIN series'
  /\ Len(series'[key]) = Len(series[key]) + 1

\* the activations that are in a phase of the workload name other than
\* execute(), or in the cooldown of one of its epochs
OutsideExecute(name) ==
  {r \in RunIds : /\ runs[r].pc \in {"prepare", "cleanUp", "cooldown"}
                  /\ activeTestName(runs[r]) = name}

\* C13: a sample is appended only under the key that is the marker at that
\* moment, never while the marker is 'none', and never to the series of a
\* workload while an activation is in its prepare(), cleanUp() or cooldown
C13_Attribution ==
  [][\A key \in TestNames \cup {"requestedMonitoring"} :
       (\/ Appended(cpuStats, key) \/ Appended(memStats, key)
        \/ Appended(internalEventLoopLags, key)) =>
         /\ activeTest = key
         /\ OutsideExecute(key) = {}]_vars

\* an activation that has processed all its workloads (line 267 is behind it)
Finished(run) ==
  \/ run.pc \in {"done", "rget", "rset"}
  \/ run.pc = "failed" /\ run.at \in {"rget", "rset"}

\* a run was made, and every run made has processed all its workloads
AllFinished == Started # {} /\ \A r \in Started : Finished(runs[r])

\* no monitorStats loop and no lag chain is left
SamplersStopped == monitors = [probe |-> 0, wait |-> 0] /\ lagTimers = NoTimers

\* C14: once the runs made have processed all their workloads the flag is
\* false, and from then on the monitorStats loops exit and the lag chains end,
\* unless another run is started first
C14_SamplersStop ==
  /\ [](AllFinished => ~monitoringActive)
  /\ AllFinished ~> (SamplersStopped \/ ~AllFinished)

\* two runs are over, and no sampler is left
C14_Witness ==
  /\ AllFinished /\ Cardinality(Started) = 2
  /\ SamplersStopped /\ ~monitoringActive

\* C15: on a primary, the handling of a command that is not 'test', not the
\* id of a registered workload and not 'requestedMonitoring' changes neither
\* the marker, the flag, the series maps nor the accumulator, starts no run
\* and makes no storage call; the message is answered once
C15_UnknownIsInert ==
  [][(/\ lastMessage' # lastMessage
      /\ lastMessage'.command \notin {"test", "requestedMonitoring"} \cup TestNames)
     => /\ UNCHANGED <<activeTest, monitoringActive, seriesVars, requestedMonitoring,
                       restartVars, runs, hostVars, states>>
        /\ lastMessage'.outcome = "returned"
        /\ lastMessage'.acks = 1]_vars

\* the measuring commands that arrived before activation h, and whether the
\* last of them was a 'startMeasuring'
MeasuringBefore(h) ==
  {g \in 1..(h - 1) : handlers[g].command \in {"startMeasuring", "stopMeasuring"}}
FollowsStart(h) ==
  /\ MeasuringBefore(h) # {}
  /\ LET g == CHOOSE g \in MeasuringBefore(h) : \A k \in MeasuringBefore(h) : k <= g
     IN handlers[g].command = "startMeasuring"

\* C16: on a secondary, a 'stopMeasuring' that follows a 'startMeasuring' sends
\* one report, with the samples since that start and one elapsed time, and no
\* other 'stopMeasuring' sends a report for the same start; a 'stopMeasuring'
\* that follows no 'startMeasuring' (none was sent, or it is repeated) sends no
\* report; once the last 'stopMeasuring' is answered with nothing arriving
\* after it, the series and the start timestamp are gone
C16_ReportPerStop ==
  \A h \in Handled :
    handlers[h].command = "stopMeasuring" =>
      /\ IF FollowsStart(h)
         THEN /\ handlers[h].sent # 0
              /\ outbox[handlers[h].sent].since = handlers[h].since
              /\ Len(outbox[handlers[h].sent].time) = 1
         ELSE handlers[h].sent = 0
      /\ (handlers[h].pc = "returned" /\ h = Cardinality(Handled))
           => /\ requestedMonitoringStartTime = 0
              /\ ~Has(cpuStats, "requestedMonitoring")
              /\ ~Has(memStats, "requestedMonitoring")
              /\ ~Has(internalEventLoopLags, "requestedMonitoring")

\* what a payload carries for a field of an entry: the array, or nothing
PayloadArray(message, field) ==
  IF message.k = "object" /\ field \in DOMAIN message.arrays
  THEN message.arrays[field]
  ELSE <<>>

\* the step in which an activation of runTests has written a summary
SummaryWritten(r) ==
  /\ runs[r].pc = "set" /\ runs[r].si = 11
  /\ runs'[r] # runs[r] /\ runs'[r].pc # "failed"

\* C17: on a primary the accumulator changes only when it is cleared or when a
\* report is handled; a report creates the entry of its sender if there is
\* none, appends each array of its payload to the array of that entry and
\* leaves the entries of the other senders as they are (so an array is the
\* concatenation, in the order of arrival, of what the sender reported since
\* the last clear); the accumulator is empty once a summary is written
C17_Accumulates ==
  [][/\ requestedMonitoring' # requestedMonitoring =>
          \/ requestedMonitoring' = EmptyMap /\ runs' # runs
          \/ /\ lastMessage'.command = "requestedMonitoring"
             /\ LET from == lastMessage'.from
                    message == lastMessage'.message
                IN /\ DOMAIN requestedMonitoring' = DOMAIN requestedMonitoring \cup {from}
                   /\ \A other \in DOMAIN requestedMonitoring \ {from} :
                        requestedMonitoring'[other] = requestedMonitoring[other]
                   /\ DOMAIN requestedMonitoring'[from] =
                        {"cpuStats", "memStats", "eventLoopLags", "time"}
                   /\ \A field \in DOMAIN requestedMonitoring'[from] :
                        requestedMonitoring'[from][field] =
                          (IF from \in DOMAIN requestedMonitoring
                           THEN requestedMonitoring[from][field]
                           ELSE <<>>) \o PayloadArray(message, field)
     /\ \A r \in RunIds : SummaryWritten(r) => requestedMonitoring' = EmptyMap]_vars

\* two senders have reported, the first of them twice, and the run has written
\* the summary of a workload before
C17_Witness ==
  /\ DOMAIN requestedMonitoring = Senders
  /\ requestedMonitoring["system.adapter.benchmark.1"].time = <<Rat(3, 1), Rat(1, 1)>>
  /\ requestedMonitoring["system.adapter.benchmark.1"].cpuStats = <<Rat(3, 1)>>
  /\ requestedMonitoring["system.adapter.benchmark.2"].time = <<Rat(1, 1)>>
  /\ \E r \in RunIds : runs[r].pc # "none"

\* the workloads an activation of runTests was called with
Selection(run) == {run.sel[i] : i \in 1..Len(run.sel)}

\* the step in which a message with this command starts activation r
Triggers(command, r) ==
  /\ runs[r].pc = "none" /\ runs'[r].pc # "none"
  /\ lastMessage'.command = command

\* C18: the id of a registered workload starts a run of that workload alone,
\* 'test' a run of the whole registry; a run works on no workload and writes
\* no state outside its selection, and when it is done it has written the
\* states of every workload of its selection
C18_Selection ==
  /\ [][\A r \in RunIds :
          /\ \A command \in TestNames :
               Triggers(command, r) => runs'[r].sel = <<command>>
          /\ Triggers("test", r) => runs'[r].sel = allTests]_vars
  /\ [](\A r \in RunIds :
          /\ runs[r].wrote \subseteq Selection(runs[r])
          /\ runs[r].pc \in EpochPcs => activeTestName(runs[r]) \in Selection(runs[r])
          /\ Cardinality(Started) = 1 =>
               \A key \in DOMAIN states : key[1] \in Selection(runs[r]) \/ r \notin Started
          /\ runs[r].pc = "done" => runs[r].wrote = Selection(runs[r]))

\* a run of one workload is done and has written that workload's summary,
\* and no state of the other workload of the registry
C18_Witness ==
  \E r \in RunIds :
    /\ runs[r].pc = "done" /\ Len(runs[r].sel) = 1
    /\ <<runs[r].sel[1], "summary">> \in DOMAIN states
    /\ \E name \in TestNames : \A key \in DOMAIN states : key[1] # name

\* the seconds a pair [seconds, nanoseconds] stands for
Seconds(hr) == Plus(Rat(hr[1], 1), Norm(hr[2], 1000000000))

\* a < b, on rationals
Less(a, b) == a.n * b.d < b.n * a.d

\* the interval of hr1 is longer than that of hr2
Longer(hr1, hr2) == hr1[1] > hr2[1] \/ (hr1[1] = hr2[1] /\ hr1[2] > hr2[2])

\* C19: the elapsed time a report carries is the seconds of the pair plus its
\* nanoseconds divided by 10^9, and no longer interval would have been
\* recorded as a smaller time
C19_ElapsedSeconds ==
  \A i \in DOMAIN outbox :
    /\ outbox[i].time = <<Seconds(outbox[i].hr)>>
    /\ \A hr \in HrPairs :
         Longer(hr, outbox[i].hr) => ~Less(parseFloatJoin(hr), outbox[i].time[1])

\* the workloads of seq are in the order of the registry
InRegistryOrder(seq) ==
  \A i, k \in DOMAIN seq :
    i < k => \E a, b \in DOMAIN TestRegistry :
               a < b /\ TestRegistry[a] = seq[i] /\ TestRegistry[b] = seq[k]

\* C20: a run works on the workloads of its selection in registry order, one
\* after another: while it works on a workload it has written the summaries
\* of the workloads before it, one each and in that order, and none else;
\* when it is done it has written one summary per workload; a summary is
\* written after the cleanUp of the last epoch of its workload, and the next
\* workload is prepared only after it
C20_OneSummaryEach ==
  /\ [](\A r \in RunIds :
          LET run == runs[r]
          IN /\ InRegistryOrder(run.sel)
             /\ run.pc \in {"chan", "objs", "set"} \cup EpochPcs =>
                  run.summaries = SubSeq(run.sel, 1, run.wi - 1)
             /\ run.pc \in {"done", "rget", "rset"} => run.summaries = run.sel
             /\ Len(run.summaries) <= Len(run.sel)
             /\ run.summaries = SubSeq(run.sel, 1, Len(run.summaries)))
  /\ [][\A r \in RunIds :
          SummaryWritten(r) =>
            /\ runs[r].j = config.epochs
            /\ runs[r].phases = <<"prepare", "execute", "cleanUp">>
            /\ runs'[r].summaries = Append(runs[r].summaries, activeTestName(runs[r]))
            /\ states'[<<activeTestName(runs[r]), "summary">>] =
                 JSONstringify(runs[r].loc["summary"])]_vars

\* a run of the whole registry works on its second workload, in an epoch
\* after the first, and has written the summary of the first workload only
C20_Witness ==
  \E r \in RunIds :
    /\ runs[r].sel = allTests /\ Len(allTests) > 1
    /\ runs[r].wi = 2 /\ runs[r].pc = "execute" /\ runs[r].j = config.epochs
    /\ runs[r].summaries = <<allTests[1]>>
    /\ <<allTests[1], "summary">> \in DOMAIN states
    /\ <<allTests[2], "summary">> \notin DOMAIN states

\* a resource-sampler loop or a lag chain can still fire
SamplerLive ==
  \/ monitors.probe + monitors.wait > 0
  \/ \E kind \in TimerKinds : lagTimers[kind] > 0

\* C21: while the marker is set and a sampler can still fire, the CPU, the
\* memory and the lag series of the marker exist
C21_SeriesOfMarkerExist ==
  (activeTest # "none" /\ SamplerLive) =>
    /\ Has(cpuStats, activeTest)
    /\ Has(memStats, activeTest)
    /\ Has(internalEventLoopLags, activeTest)

\* C22: at most one resource-sampler loop and at most one lag chain are live
C22_OneSamplerEach ==
  /\ monitors.probe + monitors.wait <= 1
  /\ lagTimers.pending + lagTimers.terminal + lagTimers.revived <= 1

\* C23: the reports the accumulator holds when a run clears it after writing
\* a summary are the reports that were reduced into that summary: the summary
\* written is the reduction of the accumulator that is cleared
C23_ClearedIsReduced ==
  [][\A r \in RunIds :
       SummaryWritten(r) =>
         runs[r].loc["summary"] =
           SummaryState(runs[r].loc, requestedMonitoring, config.iterations)]_vars

\* C24: on a secondary, a 'stopMeasuring' that sent a report is acknowledged
\* only when the primary has merged that report and replied to it, and it is
\* acknowledged once at most
C24_AckAfterReport ==
  \A h \in Handled :
    (handlers[h].command = "stopMeasuring" /\ handlers[h].sent # 0) =>
      /\ handlers[h].acks <= 1
      /\ handlers[h].acks = 1 =>
           handlers[h].pc = "returned" /\ outbox[handlers[h].sent].answered

\* a 'stopMeasuring' that sent a report is acknowledged, while the report of
\* another one is not answered and that one waits without acknowledgement
C24_Witness ==
  \E g, h \in Handled :
    /\ handlers[g].command = "stopMeasuring" /\ handlers[g].sent # 0
    /\ handlers[g].acks = 1 /\ outbox[handlers[g].sent].answered
    /\ handlers[h].command = "stopMeasuring" /\ handlers[h].sent # 0
    /\ handlers[h].acks = 0 /\ ~outbox[handlers[h].sent].answered

====
